---- MODULE Spec2Model ----
(***************************************************************************)
(* Model of bitbucket/client.go: the Client, its request dispatcher Do,    *)
(* the helpers Get/Post/PostNonJson/Put/PutOnly/Delete and the Error type. *)
(* Do is modelled statement group by statement group; pc is the position   *)
(* of the one synchronous call in flight.                                  *)
(***************************************************************************)
EXTENDS Integers, Sequences, FiniteSets, TLC

VARIABLES c, op, args, pc, req, resp, err, apiError, ret, trace

vars == <<c, op, args, pc, req, resp, err, apiError, ret, trace>>

----------------------------------------------------------------------------
(* Values *)

\* A nil pointer / nil interface value.
Nil == [kind |-> "nil"]

\* client.go:30
BitbucketEndpoint == "https://api.bitbucket.org/"

\* JSON documents, as encoding/json sees a body.
JInvalid == [kind |-> "invalid"]
JNull == [kind |-> "null"]
JArr == [kind |-> "array"]
JStr(s) == [kind |-> "string", str |-> s]
JNum(n) == [kind |-> "number", num |-> n]
JObj(members) == [kind |-> "object", members |-> members]
Member(k, v) == [key |-> k, val |-> v]

\* Response bodies the server may send: the raw text and the document it is.
Bodies ==
  { [raw |-> "{\"error\":{\"message\":\"nope\"}}",
     doc |-> JObj(<<Member("error", JObj(<<Member("message", JStr("nope"))>>))>>)],
    [raw |-> "internal failure", doc |-> JInvalid],
    [raw |-> "", doc |-> JInvalid],
    [raw |-> "{}", doc |-> JObj(<<>>)],
    [raw |-> "null", doc |-> JNull],
    [raw |-> "\"oops\"", doc |-> JStr("oops")],
    [raw |-> "[1]", doc |-> JArr],
    [raw |-> "{\"type\":\"error\",\"error\":{\"message\":\"gone\"}}",
     doc |-> JObj(<<Member("type", JStr("error")),
                    Member("error", JObj(<<Member("message", JStr("gone"))>>))>>)],
    [raw |-> "{\"Error\":{\"Message\":\"folded\"}}",
     doc |-> JObj(<<Member("Error", JObj(<<Member("Message", JStr("folded"))>>))>>)],
    [raw |-> "{\"error\":{\"message\":5}}",
     doc |-> JObj(<<Member("error", JObj(<<Member("message", JNum(5))>>))>>)],
    [raw |-> "{\"error\":\"bad\"}",
     doc |-> JObj(<<Member("error", JStr("bad"))>>)],
    [raw |-> "{\"error\":null}",
     doc |-> JObj(<<Member("error", JNull)>>)],
    [raw |-> "{\"StatusCode\":200,\"Endpoint\":\"evil\"}",
     doc |-> JObj(<<Member("StatusCode", JNum(200)), Member("Endpoint", JStr("evil"))>>)],
    [raw |-> "{\"statuscode\":503,\"type\":7}",
     doc |-> JObj(<<Member("statuscode", JNum(503)), Member("type", JNum(7))>>)] }

\* Status codes a response may carry.
Statuses == {100, 199, 200, 204, 299, 300, 301, 304, 399, 400, 404, 500}

\* The 3xx codes with which http.Client.Do hands back a response and an error
\* (CheckRedirect failed).
RedirectStatuses == {301, 302}

Endpoints == {"2.0/user", "2.0/%zz"}

\* *bytes.Buffer arguments: nil, an empty buffer, a buffer with content.
Buffer(data) == [kind |-> "buffer", data |-> data]
Payloads == {Nil, Buffer(""), Buffer("{\"name\":\"x\"}")}

\* Methods a direct caller of Do may pass besides the helpers' verbs.
DirectMethods == {"PATCH", "BAD METHOD"}

----------------------------------------------------------------------------
(* net/http and oauth2, as far as Do depends on them *)

\* net/http validMethod: a method is a non-empty token.
ValidMethod(method) == method \in {"GET", "POST", "PUT", "DELETE", "PATCH"}

\* net/url Parse: an invalid percent escape is rejected.
ValidURL(url) == url # BitbucketEndpoint \o "2.0/%zz"

\* http.NewRequest's treatment of a *bytes.Buffer body: an empty buffer
\* becomes http.NoBody.
RequestBody(bodyreader) ==
  IF bodyreader = Nil THEN Nil
  ELSE IF bodyreader.data = "" THEN [kind |-> "NoBody"]
  ELSE bodyreader

NoHeader == [Authorization |-> <<>>, ContentType |-> <<>>]

\* http.Header.Set replaces the values of a key, http.Header.Add appends one.
HeaderSet(h, key, value) == [h EXCEPT ![key] = <<value>>]
HeaderAdd(h, key, value) == [h EXCEPT ![key] = Append(@, value)]

\* The value Request.SetBasicAuth writes: "Basic " and the base64 encoding
\* of username ":" password (the encoding is kept symbolic).
BasicAuthValue(username, password) ==
  "Basic " \o "base64(" \o username \o ":" \o password \o ")"

\* oauth2.Token.SetAuthHeader: Header.Set("Authorization", Type() + " " + AccessToken)
TokenAuthValue(token) == token.Type \o " " \o token.AccessToken

\* The token a working token source yields.
SourceToken == [Type |-> "Bearer", AccessToken |-> "fresh"]

\* An *http.Response.
Response(status, body) == [kind |-> "response", StatusCode |-> status, Body |-> body]

\* The body of the response that comes with a CheckRedirect error: already closed.
ClosedBody == [raw |-> "", doc |-> JInvalid]

ConstructionError == [kind |-> "construction"]
CredentialError == [kind |-> "credential"]
NetworkError == [kind |-> "transport", cause |-> "network"]
RedirectError == [kind |-> "transport", cause |-> "CheckRedirect"]
ReadError == [kind |-> "read"]

\* What http.Client.Do may hand back: an error and no response; a response
\* and no error, whatever the status; or, when CheckRedirect fails, the
\* redirect response together with the error.
TransportOutcomes ==
  {[resp |-> Nil, err |-> NetworkError]}
  \cup {[resp |-> Response(s, b), err |-> Nil] : s \in Statuses, b \in Bodies}
  \cup {[resp |-> Response(s, ClosedBody), err |-> RedirectError] : s \in RedirectStatuses}

----------------------------------------------------------------------------
(* Error, client.go:15-26 *)

ZeroError == [kind |-> "api", Message |-> "", Type |-> "", StatusCode |-> 0, Endpoint |-> ""]

\* Error.Error, client.go:24-26
ErrorString(e) ==
  "API Error: " \o ToString(e.StatusCode) \o " " \o e.Endpoint \o " " \o e.Message

\* encoding/json matches an object key to a struct field by name, ignoring case.
FoldKey(k) ==
  CASE k = "Error" -> "error"
    [] k = "Message" -> "message"
    [] k = "Type" -> "type"
    [] k = "StatusCode" -> "statuscode"
    [] k = "Endpoint" -> "endpoint"
    [] OTHER -> k

\* Decoding a JSON value into a string field: null leaves it, a string sets
\* it, anything else is a type error and leaves it.
DecodeString(old, v) ==
  IF v.kind = "string" THEN [val |-> v.str, failed |-> FALSE]
  ELSE IF v.kind = "null" THEN [val |-> old, failed |-> FALSE]
  ELSE [val |-> old, failed |-> TRUE]

\* Decoding a JSON value into an int field.
DecodeInt(old, v) ==
  IF v.kind = "number" THEN [val |-> v.num, failed |-> FALSE]
  ELSE IF v.kind = "null" THEN [val |-> old, failed |-> FALSE]
  ELSE [val |-> old, failed |-> TRUE]

\* Decoding the members of the "error" object into Error.APIError
\* (one field, json:"message").
RECURSIVE DecodeAPIErrorMembers(_, _, _)
DecodeAPIErrorMembers(members, i, acc) ==
  IF i > Len(members) THEN acc
  ELSE LET m == members[i]
           d == DecodeString(acc.val, m.val)
       IN DecodeAPIErrorMembers(members, i + 1,
            IF FoldKey(m.key) = "message"
            THEN [val |-> d.val, failed |-> acc.failed \/ d.failed]
            ELSE acc)

\* Decoding a JSON value into the struct field Error.APIError.
DecodeAPIError(old, v) ==
  IF v.kind = "object"
  THEN DecodeAPIErrorMembers(v.members, 1, [val |-> old, failed |-> FALSE])
  ELSE IF v.kind = "null" THEN [val |-> old, failed |-> FALSE]
  ELSE [val |-> old, failed |-> TRUE]

\* Decoding the members of the top-level object into Error: the fields are
\* APIError (json:"error"), Type (json:"type") and the untagged exported
\* fields StatusCode and Endpoint. The first error is kept and decoding goes on.
RECURSIVE DecodeErrorMembers(_, _, _)
DecodeErrorMembers(members, i, acc) ==
  IF i > Len(members) THEN acc
  ELSE LET m == members[i]
           k == FoldKey(m.key)
           e == acc.val
       IN DecodeErrorMembers(members, i + 1,
            CASE k = "error" ->
                   LET d == DecodeAPIError(e.Message, m.val)
                   IN [val |-> [e EXCEPT !.Message = d.val], failed |-> acc.failed \/ d.failed]
              [] k = "type" ->
                   LET d == DecodeString(e.Type, m.val)
                   IN [val |-> [e EXCEPT !.Type = d.val], failed |-> acc.failed \/ d.failed]
              [] k = "statuscode" ->
                   LET d == DecodeInt(e.StatusCode, m.val)
                   IN [val |-> [e EXCEPT !.StatusCode = d.val], failed |-> acc.failed \/ d.failed]
              [] k = "endpoint" ->
                   LET d == DecodeString(e.Endpoint, m.val)
                   IN [val |-> [e EXCEPT !.Endpoint = d.val], failed |-> acc.failed \/ d.failed]
              [] OTHER -> acc)

\* json.Unmarshal(body, &apiError): a syntax error changes nothing; null is
\* accepted and changes nothing; an object is decoded member by member; any
\* other document is a type error.
Unmarshal(body, e) ==
  CASE body.doc.kind = "invalid" -> [val |-> e, failed |-> TRUE]
    [] body.doc.kind = "null" -> [val |-> e, failed |-> FALSE]
    [] body.doc.kind = "object" ->
         DecodeErrorMembers(body.doc.members, 1, [val |-> e, failed |-> FALSE])
    [] OTHER -> [val |-> e, failed |-> TRUE]

----------------------------------------------------------------------------
(* Client, client.go:35-41 *)

\* A non-nil *string.
Ptr(s) == [kind |-> "ptr", val |-> s]

Clients ==
  [Username : {Nil, Ptr("user")}, Password : {Nil, Ptr("app-password")},
   OAuthToken : {Nil, Ptr("static")}, OAuthTokenSource : {Nil, [kind |-> "source"]}]

NoArgs == [method |-> "", endpoint |-> "", payload |-> Nil, addJsonHeader |-> FALSE]

Init ==
  /\ c \in Clients
  /\ op = "none"
  /\ args = NoArgs
  /\ pc = "idle"
  /\ req = Nil
  /\ resp = Nil
  /\ err = Nil
  /\ apiError = Nil
  /\ ret = [outcome |-> "none", resp |-> Nil, err |-> Nil]
  /\ trace = <<>>

\* The process can take a call: none is in flight and none has panicked.
CanCall == pc = "idle" \/ (pc = "done" /\ ret.outcome = "returned")

\* Entry into Do, client.go:44-53.
Enter(name, method, endpoint, payload, addJsonHeader) ==
  /\ op' = name
  /\ args' = [method |-> method, endpoint |-> endpoint, payload |-> payload,
              addJsonHeader |-> addJsonHeader]
  /\ pc' = "NewRequest"
  /\ req' = Nil
  /\ resp' = Nil
  /\ err' = Nil
  /\ apiError' = Nil
  /\ ret' = [outcome |-> "none", resp |-> Nil, err |-> Nil]
  /\ trace' = <<>>
  /\ UNCHANGED c

\* return resp, err
Return(r, e) ==
  /\ pc' = "done"
  /\ ret' = [outcome |-> "returned", resp |-> r, err |-> e]

\* A run-time panic ends the call without a return value.
Panic ==
  /\ pc' = "done"
  /\ ret' = [outcome |-> "panicked", resp |-> Nil, err |-> Nil]

----------------------------------------------------------------------------
(* Do, client.go:44-111 *)

\* NewRequest without the error check of client.go:56-58.
NewRequestUnchecked ==
  /\ pc = "NewRequest"
  /\ trace' = Append(trace, IF ValidMethod(args.method)
                                 /\ ValidURL(BitbucketEndpoint \o args.endpoint)
                              THEN "NewRequest ok" ELSE "NewRequest error")
  /\ req' = [kind |-> "request", method |-> args.method,
             url |-> BitbucketEndpoint \o args.endpoint,
             header |-> NoHeader, body |-> RequestBody(args.payload),
             close |-> FALSE]
  /\ pc' = "BasicAuth"
  /\ UNCHANGED <<c, op, args, resp, err, apiError, ret>>

\* client.go:55-58
NewRequest ==
  /\ pc = "NewRequest"
  /\ IF ValidMethod(args.method) /\ ValidURL(BitbucketEndpoint \o args.endpoint)
     THEN /\ trace' = Append(trace, "NewRequest ok")
          /\ req' = [kind |-> "request", method |-> args.method,
                     url |-> BitbucketEndpoint \o args.endpoint,
                     header |-> NoHeader, body |-> RequestBody(args.payload),
                     close |-> FALSE]
          /\ pc' = "BasicAuth"
          /\ UNCHANGED ret
     ELSE /\ trace' = Append(trace, "NewRequest error")
          /\ Return(Nil, ConstructionError)
          /\ UNCHANGED req
  /\ UNCHANGED <<c, op, args, resp, err, apiError>>

\* client.go:60-63
SetBasicAuth ==
  /\ pc = "BasicAuth"
  /\ req' = IF c.Username # Nil /\ c.Password # Nil
            THEN [req EXCEPT !.header =
                    HeaderSet(@, "Authorization", BasicAuthValue(c.Username.val, c.Password.val))]
            ELSE req
  /\ pc' = "Bearer"
  /\ UNCHANGED <<c, op, args, resp, err, apiError, ret, trace>>

\* client.go:65-69
SetBearerToken ==
  /\ pc = "Bearer"
  /\ req' = IF c.OAuthToken # Nil
            THEN [req EXCEPT !.header =
                    HeaderAdd(@, "Authorization", "Bearer " \o c.OAuthToken.val)]
            ELSE req
  /\ pc' = "TokenSource"
  /\ UNCHANGED <<c, op, args, resp, err, apiError, ret, trace>>

\* AcquireToken without the error check of client.go:73-75.
AcquireTokenIgnoringError ==
  /\ pc = "TokenSource"
  /\ IF c.OAuthTokenSource = Nil
     THEN UNCHANGED <<req, trace>>
     ELSE \E ok \in BOOLEAN :
            IF ok
            THEN /\ trace' = Append(trace, "Token ok")
                 /\ req' = [req EXCEPT !.header =
                              HeaderSet(@, "Authorization", TokenAuthValue(SourceToken))]
            ELSE /\ trace' = Append(trace, "Token error")
                 /\ UNCHANGED req
  /\ pc' = "ContentType"
  /\ UNCHANGED <<c, op, args, resp, err, apiError, ret>>

\* client.go:71-78; the token source answers with a token or with an error.
AcquireToken ==
  /\ pc = "TokenSource"
  /\ IF c.OAuthTokenSource = Nil
     THEN /\ pc' = "ContentType"
          /\ UNCHANGED <<req, ret, trace>>
     ELSE \E ok \in BOOLEAN :
               IF ok
               THEN /\ trace' = Append(trace, "Token ok")
                    /\ req' = [req EXCEPT !.header =
                                 HeaderSet(@, "Authorization", TokenAuthValue(SourceToken))]
                    /\ pc' = "ContentType"
                    /\ UNCHANGED ret
               ELSE /\ trace' = Append(trace, "Token error")
                    /\ Return(Nil, CredentialError)
                    /\ UNCHANGED req
  /\ UNCHANGED <<c, op, args, resp, err, apiError>>

\* The content type decided by the flag alone.
WantsJsonHeaderFlagOnly(payload, addJsonHeader) == addJsonHeader

\* client.go:80, the condition under which the content type is added.
WantsJsonHeader(payload, addJsonHeader) == payload # Nil /\ addJsonHeader

\* client.go:80-83
AddContentType ==
  /\ pc = "ContentType"
  /\ req' = IF WantsJsonHeader(args.payload, args.addJsonHeader)
            THEN [req EXCEPT !.header = HeaderAdd(@, "ContentType", "application/json")]
            ELSE req
  /\ pc' = "Close"
  /\ UNCHANGED <<c, op, args, resp, err, apiError, ret, trace>>

\* client.go:85
SetClose ==
  /\ pc = "Close"
  /\ req' = [req EXCEPT !.close = TRUE]
  /\ pc' = "Send"
  /\ UNCHANGED <<c, op, args, resp, err, apiError, ret, trace>>

\* Send that sends again when the transport fails.
SendRetrying ==
  /\ pc = "Send"
  /\ trace' = Append(trace, "Send")
  /\ \E o \in TransportOutcomes :
       /\ resp' = o.resp
       /\ err' = o.err
       /\ pc' = IF o.resp = Nil /\ Len(trace) < 6 THEN "Send" ELSE "CheckStatus"
  /\ UNCHANGED <<c, op, args, req, apiError, ret>>

\* client.go:87, resp, err := c.HTTPClient.Do(req)
Send ==
  /\ pc = "Send"
  /\ trace' = Append(trace, "Send")
  /\ \E o \in TransportOutcomes :
       /\ resp' = o.resp
       /\ err' = o.err
  /\ pc' = "CheckStatus"
  /\ UNCHANGED <<c, op, args, req, apiError, ret>>

\* The error path taken by every status outside 200..299.
IsFailureNon2xx(status) == status >= 300 \/ status < 200

\* client.go:89, the test that sends a response down the error path.
IsFailure(status) == status >= 400 \/ status < 200

\* client.go:89-93 and 110. resp.StatusCode dereferences resp: with a nil
\* resp the call panics.
CheckStatus ==
  /\ pc = "CheckStatus"
  /\ IF resp = Nil
     THEN /\ Panic
          /\ UNCHANGED apiError
     ELSE IF IsFailure(resp.StatusCode)
     THEN /\ apiError' = [ZeroError EXCEPT !.StatusCode = resp.StatusCode,
                                           !.Endpoint = args.endpoint]
          /\ pc' = "ReadAll"
          /\ UNCHANGED ret
     ELSE /\ Return(resp, err)
          /\ UNCHANGED apiError
  /\ UNCHANGED <<c, op, args, req, resp, err, trace>>

\* ReadAll without the error check of client.go:96-98.
ReadAllSwallowingError ==
  /\ pc = "ReadAll"
  /\ \E ok \in BOOLEAN :
       trace' = Append(trace, IF ok THEN "ReadAll ok" ELSE "ReadAll error")
  /\ pc' = "Unmarshal"
  /\ UNCHANGED <<c, op, args, req, resp, err, apiError, ret>>

\* client.go:95-98; reading the body succeeds or fails. body and err are
\* new variables of the if block: the outer err keeps the transport's answer.
ReadAll ==
  /\ pc = "ReadAll"
  /\ \E ok \in BOOLEAN :
       IF ok
       THEN /\ trace' = Append(trace, "ReadAll ok")
            /\ pc' = "Unmarshal"
            /\ UNCHANGED ret
       ELSE /\ trace' = Append(trace, "ReadAll error")
            /\ Return(Nil, ReadError)
  /\ UNCHANGED <<c, op, args, req, resp, err, apiError>>

\* The decoding attempt without the fallback of client.go:103-105.
NormalizeWithoutFallback(body, e) == Unmarshal(body, e).val

\* client.go:102-105, apiError after the decoding attempt and the fallback.
Normalize(body, e) ==
  LET u == Unmarshal(body, e)
  IN IF u.failed THEN [u.val EXCEPT !.Message = body.raw] ELSE u.val

\* client.go:102-107
UnmarshalBody ==
  /\ pc = "Unmarshal"
  /\ trace' = Append(trace, "Unmarshal")
  /\ apiError' = Normalize(resp.Body, apiError)
  /\ Return(resp, apiError')
  /\ UNCHANGED <<c, op, args, req, resp, err>>

----------------------------------------------------------------------------
(* The helpers, client.go:113-141, and a direct call of Do *)

\* client.go:114-116
Get ==
  /\ CanCall
  /\ \E e \in Endpoints : Enter("Get", "GET", e, Nil, TRUE)

\* client.go:119-121
Post ==
  /\ CanCall
  /\ \E e \in Endpoints, p \in Payloads : Enter("Post", "POST", e, p, TRUE)

\* client.go:124-126
PostNonJson ==
  /\ CanCall
  /\ \E e \in Endpoints, p \in Payloads : Enter("PostNonJson", "POST", e, p, FALSE)

\* client.go:129-131
Put ==
  /\ CanCall
  /\ \E e \in Endpoints, p \in Payloads : Enter("Put", "PUT", e, p, TRUE)

\* client.go:134-136
PutOnly ==
  /\ CanCall
  /\ \E e \in Endpoints : Enter("PutOnly", "PUT", e, Nil, TRUE)

\* client.go:139-141
Delete ==
  /\ CanCall
  /\ \E e \in Endpoints : Enter("Delete", "DELETE", e, Nil, TRUE)

\* client.go:44, Do called by a user of the package.
Do ==
  /\ CanCall
  /\ \E m \in DirectMethods, e \in Endpoints, p \in Payloads, j \in BOOLEAN :
       Enter("Do", m, e, p, j)

Next ==
  \/ Get \/ Post \/ PostNonJson \/ Put \/ PutOnly \/ Delete \/ Do
  \/ NewRequest \/ SetBasicAuth \/ SetBearerToken \/ AcquireToken
  \/ AddContentType \/ SetClose \/ Send \/ CheckStatus \/ ReadAll \/ UnmarshalBody

Spec == Init /\ [][Next]_vars

----------------------------------------------------------------------------
(* Observations used by the properties *)

Has(ev) == \E i \in 1..Len(trace) : trace[i] = ev
Count(ev) == Cardinality({i \in 1..Len(trace) : trace[i] = ev})
Sent == Has("Send")
Done == pc = "done"
Returned == pc = "done" /\ ret.outcome = "returned"
BasicConfigured == c.Username # Nil /\ c.Password # Nil

----------------------------------------------------------------------------
(* C1 *)

----------------------------------------------------------------------------
(* C2 *)

\* C2: when HTTPClient.Do answers with an error and no response, Do returns
\* that error to its caller, without reading a body, without building an API
\* error and without ending abnormally.
C2_TransportErrorReturned ==
  (Done /\ Sent /\ resp = Nil /\ err # Nil) =>
    /\ ret.outcome = "returned"
    /\ ret.err = err
    /\ ret.resp = Nil
    /\ ~Has("ReadAll ok") /\ ~Has("ReadAll error") /\ ~Has("Unmarshal")
    /\ apiError = Nil

----------------------------------------------------------------------------
(* C3 *)

\* C3: with a token source configured, every transport send is preceded by a
\* successful token acquisition, and a failed acquisition ends the call with
\* the credential error, a nil response and no transport invocation.
C3_TokenBeforeTransport ==
  /\ (c.OAuthTokenSource # Nil) =>
       \A i \in 1..Len(trace) :
         trace[i] = "Send" => \E j \in 1..(i - 1) : trace[j] = "Token ok"
  /\ Has("Token error") =>
       /\ Returned
       /\ ret.err = CredentialError
       /\ ret.resp = Nil
       /\ Count("Send") = 0

\* The token source failed and the call has ended.
C3_Witness ==
  /\ c.OAuthTokenSource # Nil
  /\ Has("Token error")
  /\ Done

----------------------------------------------------------------------------
(* C4 *)

\* C4: whatever the body of a failed response, the API error Do returns has
\* the response's status code and the endpoint passed to Do.
C4_StatusAndEndpointKept ==
  (Returned /\ ret.err.kind = "api") =>
    /\ ret.err.StatusCode = resp.StatusCode
    /\ ret.err.Endpoint = args.endpoint

----------------------------------------------------------------------------
(* C5 *)

\* The members of an object that name the given field.
Named(members, field) == {i \in 1..Len(members) : FoldKey(members[i].key) = field}

\* The body is a JSON object with an "error" object holding a string "message".
HasErrorMessage(body) ==
  /\ body.doc.kind = "object"
  /\ \E i \in Named(body.doc.members, "error") :
       /\ body.doc.members[i].val.kind = "object"
       /\ \E j \in Named(body.doc.members[i].val.members, "message") :
            body.doc.members[i].val.members[j].val.kind = "string"

\* The string error.message of a body that has one, the empty string otherwise.
StructuredMessage(body) ==
  IF HasErrorMessage(body)
  THEN LET i == CHOOSE i \in Named(body.doc.members, "error") :
                  body.doc.members[i].val.kind = "object"
           inner == body.doc.members[i].val.members
           j == CHOOSE j \in Named(inner, "message") : inner[j].val.kind = "string"
       IN inner[j].val.str
  ELSE ""

\* A member's value has the JSON type of the field it names, or is null.
MemberFits(m) ==
  CASE FoldKey(m.key) = "error" ->
         \/ m.val.kind = "null"
         \/ /\ m.val.kind = "object"
            /\ \A j \in Named(m.val.members, "message") :
                 m.val.members[j].val.kind \in {"string", "null"}
    [] FoldKey(m.key) \in {"type", "endpoint"} -> m.val.kind \in {"string", "null"}
    [] FoldKey(m.key) = "statuscode" -> m.val.kind \in {"number", "null"}
    [] OTHER -> TRUE

\* The body decodes into Error without a syntax or type error.
Decodable(body) ==
  \/ body.doc.kind = "null"
  \/ /\ body.doc.kind = "object"
     /\ \A i \in 1..Len(body.doc.members) : MemberFits(body.doc.members[i])

NopeBody == CHOOSE b \in Bodies : b.raw = "{\"error\":{\"message\":\"nope\"}}"

\* C5, as stated: the message is error.message when the body is JSON of the
\* form {"error":{"message":m}} and the raw body for every other body, valid
\* JSON without error.message ({} or null) included.
C5_MessageRawUnlessErrorMessage ==
  (Returned /\ ret.err.kind = "api") =>
    /\ ret.err.Message =
         IF HasErrorMessage(resp.Body) THEN StructuredMessage(resp.Body) ELSE resp.Body.raw
    /\ (resp.Body = NopeBody /\ resp.StatusCode = 404) =>
         ErrorString(ret.err) = "API Error: 404 " \o args.endpoint \o " nope"

\* C5, amended: the message is the raw body exactly when the body does not
\* decode (not JSON, JSON that is neither an object nor null, or a member of
\* the wrong type); a body that decodes gives error.message when it has one
\* and the empty message when it has none ({} or null).
C5_MessageRawOnlyOnDecodeError ==
  (Returned /\ ret.err.kind = "api") =>
    /\ ret.err.Message =
         IF Decodable(resp.Body) THEN StructuredMessage(resp.Body) ELSE resp.Body.raw
    /\ (resp.Body = NopeBody /\ resp.StatusCode = 404) =>
         /\ ret.err.Message = "nope"
         /\ ErrorString(ret.err) = "API Error: 404 " \o args.endpoint \o " nope"
    /\ resp.Body.raw \in {"{}", "null"} => ret.err.Message = ""
    /\ resp.Body.raw = "internal failure" => ret.err.Message = "internal failure"

\* A failed response with body {} gave an API error with the empty message.
C5_Witness ==
  /\ Returned /\ ret.err.kind = "api"
  /\ resp.Body.raw = "{}"
  /\ ret.err.Message = ""

----------------------------------------------------------------------------
(* C6 *)

\* The single value of the last configured mechanism, none when none is.
ExpectedAuthorization ==
  IF c.OAuthTokenSource # Nil THEN <<TokenAuthValue(SourceToken)>>
  ELSE IF c.OAuthToken # Nil THEN <<"Bearer " \o c.OAuthToken.val>>
  ELSE IF BasicConfigured THEN <<BasicAuthValue(c.Username.val, c.Password.val)>>
  ELSE <<>>

\* C6: the request handed to the transport carries exactly one Authorization
\* value, that of the last configured mechanism in the order basic, static
\* bearer token, token source; a later mechanism replaces an earlier value.
C6_OneAuthorizationValue ==
  Sent => req.header.Authorization = ExpectedAuthorization

----------------------------------------------------------------------------
(* C7 *)

\* C7: the request sent has Content-Type application/json exactly when a
\* body is present and the flag is true; PostNonJson never sets it, Post and
\* Put set it when given a body, and Get, PutOnly and Delete neither set it
\* nor attach a body.
C7_ContentType ==
  Sent =>
    /\ req.header.ContentType \in {<<>>, <<"application/json">>}
    /\ (req.header.ContentType = <<"application/json">>)
         <=> (args.payload # Nil /\ args.addJsonHeader)
    /\ op = "PostNonJson" => req.header.ContentType = <<>>
    /\ (op \in {"Post", "Put"} /\ args.payload # Nil) =>
         req.header.ContentType = <<"application/json">>
    /\ op \in {"Get", "PutOnly", "Delete"} =>
         (req.header.ContentType = <<>> /\ req.body = Nil)

\* PostNonJson sent a request with a body and without a content type.
C7_Witness ==
  /\ Sent
  /\ op = "PostNonJson"
  /\ req.body.kind = "buffer"
  /\ req.header.ContentType = <<>>

----------------------------------------------------------------------------
(* C8 *)

\* C8: when the body of a failed response is read, Do returns the response
\* together with the API error, whether or not the body is JSON; when reading
\* it fails, Do returns the read error with a nil response.
C8_ResponseWithApiError ==
  /\ (Done /\ Has("ReadAll ok")) =>
       /\ ret.outcome = "returned"
       /\ ret.resp = resp /\ ret.resp # Nil
       /\ ret.err.kind = "api"
  /\ Has("ReadAll error") =>
       /\ Returned
       /\ ret.resp = Nil
       /\ ret.err = ReadError
  /\ (Done /\ resp # Nil /\ (resp.StatusCode < 200 \/ resp.StatusCode >= 400)) =>
       (Has("ReadAll ok") \/ Has("ReadAll error"))

\* A failed response whose body is not JSON came back with its API error.
C8_Witness ==
  /\ Done /\ Has("ReadAll ok")
  /\ resp.StatusCode = 500
  /\ resp.Body.doc.kind = "invalid"
  /\ ret.resp = resp /\ ret.err.kind = "api"

----------------------------------------------------------------------------
(* C9 *)

\* C9: when the request cannot be built, Do returns the construction error
\* with a nil response and takes no further step: no token is asked for, no
\* header is set, nothing is sent.
C9_ConstructionErrorStops ==
  Has("NewRequest error") =>
    /\ Returned
    /\ ret.resp = Nil
    /\ ret.err = ConstructionError
    /\ trace = <<"NewRequest error">>
    /\ req = Nil

\* A call with a malformed method on a fully configured client has ended.
C9_Witness ==
  /\ Has("NewRequest error")
  /\ args.method = "BAD METHOD"
  /\ c.OAuthTokenSource # Nil /\ c.OAuthToken # Nil /\ BasicConfigured
  /\ Done

----------------------------------------------------------------------------
(* C10 *)

\* C10: a call invokes the transport at most once whatever its outcome,
\* exactly once when the request is built and the token (if asked for) is
\* obtained, and every request sent has Close set.
C10_OneSendAndClose ==
  /\ Count("Send") <= 1
  /\ (Done /\ Has("NewRequest ok") /\ ~Has("Token error")) => Count("Send") = 1
  /\ Sent => req.close = TRUE

\* The body of a failed response could not be read; the transport was
\* invoked once.
C10_Witness ==
  /\ Returned /\ ret.err = ReadError
  /\ Count("Send") = 1
  /\ req.close = TRUE

====
